---- MODULE Spec2Model ----
(***************************************************************************)
(* Model of the secret replication controller (SecretReconciler).          *)
(*                                                                         *)
(* Strings that the code splits or concatenates (namespace names, secret   *)
(* names, the list annotations, the replicated-from annotation) are        *)
(* sequences of one-character strings.  Strings that the code only parses  *)
(* as a whole (the boolean and the duration annotation) are TLA+ strings.  *)
(* A payload (Secret.Data) is an abstract value; reflect.DeepEqual on two  *)
(* payloads is equality of these values.                                   *)
(*                                                                         *)
(* One Reconcile invocation is a sequence of steps, one per cluster API    *)
(* call, so that other writers to the cluster can act between two calls.  *)
(* Every API call may fail; a write fails for certain when the API server  *)
(* must reject it (missing namespace, existing object, stale object).  An  *)
(* object is stale when it is no longer equal to the object that was read  *)
(* (the API server compares resource versions, which are not modelled).    *)
(***************************************************************************)
EXTENDS Integers, Sequences, FiniteSets, TLC

VARIABLES
    cluster,     \* the Secret objects of the cluster: <<namespace, name>> -> Secret
    SecretList,  \* SecretReconciler.SecretList
    st,          \* per worker: the position and the locals of its Reconcile call
    passes,      \* Reconcile invocations started so far
    envOps,      \* writes by other clients so far
    hist         \* history: the previous finished pass, and what other clients
                 \* changed before and since the current pass began

vars == <<cluster, SecretList, st, passes, envOps, hist>>

(* ------------------------------ bounds --------------------------------- *)

\* Reconcile invocations started in one behaviour.
MaxPasses == 2

\* Writes by other clients of the cluster in one behaviour.
MaxEnvOps == 1

\* Length of the value of a list annotation, where every value is tried.
MaxLen == 2

(* ---------------------------- constants -------------------------------- *)

annotationKey == "secret-replicator.fussionlabs.com"
replicatedFromKey == "replicated-from"
replicationAllowedKey == "replication-allowed"
allowedNamespacesKey == "allowed-namespaces"
excludedNamespacesKey == "excluded-namespaces"
reconciliationIntervalKey == "reconcile-interval"

\* time.Duration(5 * time.Minute), in seconds.
defaultReconcileInterval == 300

\* fmt.Sprintf("%s/%s", annotationKey, suffix): the prefix and the suffix
\* of the key, kept as a pair.
AnnKey(suffix) == <<annotationKey, suffix>>

(* ------------------------- the cluster's names ------------------------- *)

NsS == <<"s">>
NsA == <<"a">>
NsB == <<"b">>
NsD == <<"d">>

\* The namespaces that exist; NsD is a name no namespace has.
LiveNamespaces == {NsS, NsA, NsB}

SecretName == <<"x">>
SrcKey == <<NsS, SecretName>>

\* The identities Reconcile is invoked for.
Requests == {SrcKey}

Workers == {1}

Payloads == {"P", "Q"}

(* --------------------------- annotation values ------------------------- *)

\* Values of replication-allowed: valid true, valid false, empty, invalid.
BoolValues == {"true", "false", "", "yes"}

\* Values of the two list annotations (comma-separated).
AllowedValues == {<<>>, <<"a">>, <<"s", ",", "a">>, <<"d", ",", "b">>}
ExcludedValues == {<<"a">>, <<"b", ",", "a">>}

\* Values of reconcile-interval.
IntervalValues == {"10s", "bad"}

EmptyAnn == [k \in {} |-> ""]

\* The annotations of a source: each argument is {} (key absent) or {v}.
MkAnn(en, al, ex, iv) ==
    [k \in {AnnKey(replicationAllowedKey) : x \in en}
        \cup {AnnKey(allowedNamespacesKey) : x \in al}
        \cup {AnnKey(excludedNamespacesKey) : x \in ex}
        \cup {AnnKey(reconciliationIntervalKey) : x \in iv}
     |-> IF k = AnnKey(replicationAllowedKey) THEN CHOOSE x \in en : TRUE
         ELSE IF k = AnnKey(allowedNamespacesKey) THEN CHOOSE x \in al : TRUE
         ELSE IF k = AnnKey(excludedNamespacesKey) THEN CHOOSE x \in ex : TRUE
         ELSE CHOOSE x \in iv : TRUE]

Opt(S) == {{}} \cup {{v} : v \in S}

SourceAnnotations ==
    {MkAnn(en, al, ex, iv) : en \in Opt(BoolValues), al \in Opt(AllowedValues),
                             ex \in Opt(ExcludedValues), iv \in Opt(IntervalValues)}

\* v1.Secret: the fields the controller reads or writes.
Secret(ns, name, ann, data) ==
    [Namespace |-> ns, Name |-> name, Annotations |-> ann, Data |-> data]

\* var secret v1.Secret
ZeroSecret == Secret(<<>>, <<>>, EmptyAnn, "nil")

(* ------------------------------- utils --------------------------------- *)

ListContains(s, e) == \E i \in 1..Len(s) : s[i] = e

\* Mutant: the slices are compared position by position.
SlicesOverlap_Positional(slice1, slice2) ==
    \E j \in 1..Len(slice2) : j <= Len(slice1) /\ slice1[j] = slice2[j]

SlicesOverlap(slice1, slice2) ==
    LET seen == {slice1[i] : i \in 1..Len(slice1)}
    IN  \E j \in 1..Len(slice2) : slice2[j] \in seen

\* Mutant: the item is appended whether or not the list holds it.
AppendListItem_NoDedup(list, item) == Append(list, item)

AppendListItem(list, item) ==
    IF \E i \in 1..Len(list) : list[i] = item THEN list ELSE Append(list, item)

(* --------------------------- library functions ------------------------- *)

\* Mutant: the empty pieces are dropped.
RECURSIVE Split_NoEmpty(_)
Split_NoEmpty(s) ==
    IF \A i \in 1..Len(s) : s[i] # ","
    THEN IF s = <<>> THEN <<>> ELSE <<s>>
    ELSE LET c == CHOOSE i \in 1..Len(s) : s[i] = "," /\ \A j \in 1..(i - 1) : s[j] # ","
             rest == Split_NoEmpty(SubSeq(s, c + 1, Len(s)))
         IN  IF c = 1 THEN rest ELSE <<SubSeq(s, 1, c - 1)>> \o rest

\* strings.Split(s, ","): the pieces between the commas; a string without a
\* comma (the empty string included) is one piece.
RECURSIVE Split(_)
Split(s) ==
    IF \A i \in 1..Len(s) : s[i] # ","
    THEN <<s>>
    ELSE LET c == CHOOSE i \in 1..Len(s) : s[i] = "," /\ \A j \in 1..(i - 1) : s[j] # ","
         IN  <<SubSeq(s, 1, c - 1)>> \o Split(SubSeq(s, c + 1, Len(s)))

\* strconv.ParseBool
ParseBool(str) ==
    IF str \in {"1", "t", "T", "TRUE", "true", "True"} THEN [err |-> FALSE, val |-> TRUE]
    ELSE IF str \in {"0", "f", "F", "FALSE", "false", "False"} THEN [err |-> FALSE, val |-> FALSE]
    ELSE [err |-> TRUE, val |-> FALSE]

\* time.ParseDuration on the interval values of this model, in seconds.
ParseDuration(str) ==
    IF str = "10s" THEN [err |-> FALSE, val |-> 10]
    ELSE IF str = "1m" THEN [err |-> FALSE, val |-> 60]
    ELSE [err |-> TRUE, val |-> 0]

(* ----------------------------- the getters ----------------------------- *)

\* Mutant: a value that does not parse enables replication.
replicateEnabled_FailOpen(secret) ==
    IF AnnKey(replicationAllowedKey) \notin DOMAIN secret.Annotations THEN FALSE
    ELSE LET p == ParseBool(secret.Annotations[AnnKey(replicationAllowedKey)])
         IN  IF p.err THEN TRUE ELSE p.val

replicateEnabled(secret) ==
    IF AnnKey(replicationAllowedKey) \notin DOMAIN secret.Annotations THEN FALSE
    ELSE LET p == ParseBool(secret.Annotations[AnnKey(replicationAllowedKey)])
         IN  IF p.err THEN FALSE ELSE p.val

getAllowedNamespaces(secret) ==
    IF AnnKey(allowedNamespacesKey) \notin DOMAIN secret.Annotations THEN <<>>
    ELSE Split(secret.Annotations[AnnKey(allowedNamespacesKey)])

getExcludedNamespaces(secret) ==
    IF AnnKey(excludedNamespacesKey) \notin DOMAIN secret.Annotations THEN <<>>
    ELSE Split(secret.Annotations[AnnKey(excludedNamespacesKey)])

\* Mutant: the configuration is not validated.
validateConfiguration_Skipped(secret) == FALSE

\* TRUE when validateConfiguration returns an error.
validateConfiguration(secret) ==
    SlicesOverlap(getAllowedNamespaces(secret), getExcludedNamespaces(secret))

getReconciliationInterval(secret) ==
    IF AnnKey(reconciliationIntervalKey) \notin DOMAIN secret.Annotations
    THEN defaultReconcileInterval
    ELSE LET p == ParseDuration(secret.Annotations[AnnKey(reconciliationIntervalKey)])
         IN  IF p.err THEN defaultReconcileInterval ELSE p.val

(* --------------------------- target selection -------------------------- *)

\* The orders in which the API may return the namespaces.
Orderings(S) ==
    {f \in [1..Cardinality(S) -> S] : {f[i] : i \in 1..Cardinality(S)} = S}

\* Mutant: the source namespace is not skipped.
selectTargets_KeepSource(secret, items) ==
    LET excludedNamespaces == getExcludedNamespaces(secret)
        keep(n) == ~ListContains(excludedNamespaces, n)
    IN  SelectSeq(items, keep)

\* The loop over namespaces.Items: the source namespace and the excluded
\* namespaces are skipped, the others are handed to createSecret.
selectTargets(secret, items) ==
    LET excludedNamespaces == getExcludedNamespaces(secret)
        keep(n) == ~(secret.Namespace = n) /\ ~ListContains(excludedNamespaces, n)
    IN  SelectSeq(items, keep)

\* Mutant: the allow list is filtered like the list of live namespaces.
allowedTargets_Filtered(secret, allowedNamespaces) ==
    selectTargets(secret, allowedNamespaces)

\* The loop over allowedNamespaces: every entry is handed to createSecret.
allowedTargets(secret, allowedNamespaces) == allowedNamespaces

(* ------------------------------ createSecret --------------------------- *)

\* Mutant: the name comes first.
replicatedFrom_Swapped(sourceSecret) == sourceSecret.Name \o <<"_">> \o sourceSecret.Namespace

\* fmt.Sprintf("%s_%s", sourceSecret.Namespace, sourceSecret.Name)
replicatedFrom(sourceSecret) == sourceSecret.Namespace \o <<"_">> \o sourceSecret.Name

newSecret(sourceSecret, ns) ==
    Secret(ns, sourceSecret.Name,
           [k \in {AnnKey(replicatedFromKey)} |-> replicatedFrom(sourceSecret)],
           sourceSecret.Data)

\* Mutant: the objects are compared, not their payloads.
upToDate_WholeObject(sourceSecret, secret) == sourceSecret = secret

\* Mutant: an object that is found is taken to be up to date.
upToDate_Found(sourceSecret, secret) == TRUE

\* reflect.DeepEqual(sourceSecret.Data, secret.Data)
upToDate(sourceSecret, secret) == sourceSecret.Data = secret.Data

\* Mutant: the payload is not assigned before Update.
updatedSecret_Unchanged(secret, sourceSecret) == secret

\* Mutant: Update also stamps the provenance annotation on the object.
updatedSecret_Stamped(secret, sourceSecret) ==
    [secret EXCEPT !.Data = sourceSecret.Data,
                   !.Annotations = [k \in DOMAIN @ \cup {AnnKey(replicatedFromKey)} |->
                                       IF k = AnnKey(replicatedFromKey)
                                       THEN replicatedFrom(sourceSecret) ELSE @[k]]]

\* secret.Data = sourceSecret.Data
updatedSecret(secret, sourceSecret) == [secret EXCEPT !.Data = sourceSecret.Data]

(* ------------------------------ the results ---------------------------- *)

\* ctrl.Result and error of a Reconcile call; RequeueAfter 0 is ctrl.Result{}.
Result(err, requeueAfter) == [err |-> err, RequeueAfter |-> requeueAfter]

\* Mutant: a missing source is polled at the default interval.
resultNotFound_Requeue == Result("nil", defaultReconcileInterval)

resultNotFound == Result("nil", 0)
resultGetError == Result("get", 0)
resultInvalid == Result("config", 0)
\* Mutant: a disabled source is polled at the default interval.
resultDisabled_Requeue == Result("nil", defaultReconcileInterval)

resultDisabled == Result("nil", 0)
\* Mutant: the list error is returned with no requeue delay.
resultListError_NoRequeue(reconciliationInterval) == Result("list", 0)

resultListError(reconciliationInterval) == Result("list", reconciliationInterval)
\* Mutant: no requeue delay is returned.
resultDone_NoRequeue(reconciliationInterval) == Result("nil", 0)

resultDone(reconciliationInterval) == Result("nil", reconciliationInterval)

(* ------------------------------- the state ----------------------------- *)

Idle ==
    [pc |-> "idle", req |-> SrcKey, secret |-> ZeroSecret, interval |-> 0,
     targets |-> <<>>, i |-> 1, found |-> ZeroSecret, log |-> <<>>,
     list |-> <<>>, result |-> Result("nil", 0)]

\* What the history keeps of a finished pass: the payload it read from the
\* source, the error it returned, and whether one of its API calls failed.
NoPass == [ran |-> FALSE, Data |-> "nil", err |-> "nil", failed |-> FALSE]

\* The history: the last finished pass, the kinds of writes of other clients
\* before and since the current pass began, and the identities that passes
\* have appended to SecretList so far.
NoHistory == [prev |-> NoPass, before |-> {}, during |-> {}, tracked |-> {}]

Failed(w) ==
    \/ st[w].result.err \in {"get", "list"}
    \/ \E n \in 1..Len(st[w].log) : st[w].log[n].res = "err"

Call(op, ns, res) == [op |-> op, ns |-> ns, res |-> res]

Put(c, key, obj) == [k \in DOMAIN c \cup {key} |-> IF k = key THEN obj ELSE c[k]]

Remove(c, key) == [k \in DOMAIN c \ {key} |-> c[k]]

Init ==
    /\ \E ann \in SourceAnnotations :
          cluster = [k \in {SrcKey} |-> Secret(NsS, SecretName, ann, "P")]
    /\ SecretList = <<>>
    /\ st = [w \in Workers |-> Idle]
    /\ passes = 0
    /\ envOps = 0
    /\ hist = NoHistory

\* The worker's current target namespace and the key of its replica.
Target(w) == st[w].targets[st[w].i]
TargetKey(w) == <<Target(w), st[w].secret.Name>>

BeginPass(w) ==
    /\ st[w].pc = "idle"
    /\ passes < MaxPasses
    /\ passes' = passes + 1

Begin(w, req) ==
    /\ BeginPass(w)
    /\ hist' = [hist EXCEPT !.before = hist.during, !.during = {}]

(* ------------------------- Reconcile: the source ----------------------- *)

\* r.Get: the source is not found.
ReconcileNotFound(w, req) ==
    /\ Begin(w, req)
    /\ req \notin DOMAIN cluster
    /\ st' = [st EXCEPT ![w] = [Idle EXCEPT !.pc = "done", !.req = req,
                                            !.result = resultNotFound]]
    /\ UNCHANGED <<cluster, SecretList, envOps>>

\* r.Get fails with another error.
ReconcileGetError(w, req) ==
    /\ Begin(w, req)
    /\ st' = [st EXCEPT ![w] = [Idle EXCEPT !.pc = "done", !.req = req,
                                            !.result = resultGetError]]
    /\ UNCHANGED <<cluster, SecretList, envOps>>

\* validateConfiguration returns an error.
ReconcileInvalid(w, req) ==
    /\ Begin(w, req)
    /\ req \in DOMAIN cluster
    /\ validateConfiguration(cluster[req])
    /\ st' = [st EXCEPT ![w] = [Idle EXCEPT !.pc = "done", !.req = req,
                                            !.secret = cluster[req],
                                            !.result = resultInvalid]]
    /\ UNCHANGED <<cluster, SecretList, envOps>>

\* Mutant: a pass of a disabled source deletes the replicas of the source.
ReconcileDisabled_Cleanup(w, req) ==
    /\ Begin(w, req)
    /\ req \in DOMAIN cluster
    /\ ~validateConfiguration(cluster[req])
    /\ ~replicateEnabled(cluster[req])
    /\ st' = [st EXCEPT ![w] = [Idle EXCEPT !.pc = "done", !.req = req,
                                            !.secret = cluster[req],
                                            !.result = resultDisabled]]
    /\ cluster' = [k \in {key \in DOMAIN cluster :
                             AnnKey(replicatedFromKey) \notin DOMAIN cluster[key].Annotations}
                     |-> cluster[k]]
    /\ UNCHANGED <<SecretList, envOps>>

\* replicateEnabled returns false.
ReconcileDisabled(w, req) ==
    /\ Begin(w, req)
    /\ req \in DOMAIN cluster
    /\ ~validateConfiguration(cluster[req])
    /\ ~replicateEnabled(cluster[req])
    /\ st' = [st EXCEPT ![w] = [Idle EXCEPT !.pc = "done", !.req = req,
                                            !.secret = cluster[req],
                                            !.result = resultDisabled]]
    /\ UNCHANGED <<cluster, SecretList, envOps>>

\* Replication is enabled: the source is tracked, the interval and the allow
\* list are read; a non-empty allow list is the list of targets.
ReconcileEnabled(w, req) ==
    /\ BeginPass(w)
    /\ req \in DOMAIN cluster
    /\ ~validateConfiguration(cluster[req])
    /\ replicateEnabled(cluster[req])
    /\ SecretList' = AppendListItem(SecretList, req)
    /\ hist' = [hist EXCEPT !.before = hist.during, !.during = {},
                            !.tracked = @ \cup {req}]
    /\ LET secret == cluster[req]
           allowedNamespaces == getAllowedNamespaces(secret)
       IN  st' = [st EXCEPT ![w] =
                    [Idle EXCEPT !.pc = IF Len(allowedNamespaces) > 0 THEN "loop" ELSE "list",
                                 !.req = req,
                                 !.secret = secret,
                                 !.interval = getReconciliationInterval(secret),
                                 !.targets = allowedTargets(secret, allowedNamespaces)]]
    /\ UNCHANGED <<cluster, envOps>>

(* ------------------------ Reconcile: the namespaces -------------------- *)

\* r.Client.List succeeds, in some order.
ListNamespaces(w) ==
    /\ st[w].pc = "list"
    /\ \E items \in Orderings(LiveNamespaces) :
          st' = [st EXCEPT ![w].pc = "loop",
                           ![w].targets = selectTargets(st[w].secret, items),
                           ![w].log = Append(@, Call("list", <<>>, "ok"))]
    /\ UNCHANGED <<cluster, SecretList, passes, envOps, hist>>

\* r.Client.List fails.
ListNamespacesError(w) ==
    /\ st[w].pc = "list"
    /\ st' = [st EXCEPT ![w].pc = "done",
                        ![w].log = Append(@, Call("list", <<>>, "err")),
                        ![w].result = resultListError(st[w].interval)]
    /\ UNCHANGED <<cluster, SecretList, passes, envOps, hist>>

(* ----------------------- createSecret, per target ---------------------- *)

InLoop(w) == st[w].pc = "loop" /\ st[w].i <= Len(st[w].targets)

\* r.Client.Get: not found; Create is next.
GetReplicaNotFound(w) ==
    /\ InLoop(w)
    /\ TargetKey(w) \notin DOMAIN cluster
    /\ st' = [st EXCEPT ![w].pc = "create",
                        ![w].log = Append(@, Call("get", Target(w), "notfound"))]
    /\ UNCHANGED <<cluster, SecretList, passes, envOps, hist>>

\* r.Client.Get: found, and the payload is the source's: nothing to do.
GetReplicaUpToDate(w) ==
    /\ InLoop(w)
    /\ TargetKey(w) \in DOMAIN cluster
    /\ upToDate(st[w].secret, cluster[TargetKey(w)])
    /\ st' = [st EXCEPT ![w].i = @ + 1,
                        ![w].log = Append(@, Call("get", Target(w), "ok"))]
    /\ UNCHANGED <<cluster, SecretList, passes, envOps, hist>>

\* r.Client.Get: found, and the payload differs: Update is next.
GetReplicaDrifted(w) ==
    /\ InLoop(w)
    /\ TargetKey(w) \in DOMAIN cluster
    /\ ~upToDate(st[w].secret, cluster[TargetKey(w)])
    /\ st' = [st EXCEPT ![w].pc = "update",
                        ![w].found = cluster[TargetKey(w)],
                        ![w].log = Append(@, Call("get", Target(w), "ok"))]
    /\ UNCHANGED <<cluster, SecretList, passes, envOps, hist>>

\* r.Client.Get fails with another error: the namespace is skipped.
GetReplicaError(w) ==
    /\ InLoop(w)
    /\ st' = [st EXCEPT ![w].i = @ + 1,
                        ![w].log = Append(@, Call("get", Target(w), "err"))]
    /\ UNCHANGED <<cluster, SecretList, passes, envOps, hist>>

\* r.Client.Create succeeds: the namespace exists and holds no such object.
CreateOk(w) ==
    /\ st[w].pc = "create"
    /\ Target(w) \in LiveNamespaces
    /\ TargetKey(w) \notin DOMAIN cluster
    /\ cluster' = Put(cluster, TargetKey(w), newSecret(st[w].secret, Target(w)))
    /\ st' = [st EXCEPT ![w].pc = "loop", ![w].i = @ + 1,
                        ![w].log = Append(@, Call("create", Target(w), "ok"))]
    /\ UNCHANGED <<SecretList, passes, envOps, hist>>

\* Mutant: a failed Create ends the loop over the targets.
CreateError_Abort(w) ==
    /\ st[w].pc = "create"
    /\ st' = [st EXCEPT ![w].pc = "loop", ![w].i = Len(st[w].targets) + 1,
                        ![w].log = Append(@, Call("create", Target(w), "err"))]
    /\ UNCHANGED <<cluster, SecretList, passes, envOps, hist>>

\* r.Client.Create fails.
CreateError(w) ==
    /\ st[w].pc = "create"
    /\ st' = [st EXCEPT ![w].pc = "loop", ![w].i = @ + 1,
                        ![w].log = Append(@, Call("create", Target(w), "err"))]
    /\ UNCHANGED <<cluster, SecretList, passes, envOps, hist>>

\* r.Client.Update succeeds: the object is still the one that was fetched.
UpdateOk(w) ==
    /\ st[w].pc = "update"
    /\ TargetKey(w) \in DOMAIN cluster
    /\ cluster[TargetKey(w)] = st[w].found
    /\ cluster' = Put(cluster, TargetKey(w), updatedSecret(st[w].found, st[w].secret))
    /\ st' = [st EXCEPT ![w].pc = "loop", ![w].i = @ + 1, ![w].found = ZeroSecret,
                        ![w].log = Append(@, Call("update", Target(w), "ok"))]
    /\ UNCHANGED <<SecretList, passes, envOps, hist>>

\* r.Client.Update fails.
UpdateError(w) ==
    /\ st[w].pc = "update"
    /\ st' = [st EXCEPT ![w].pc = "loop", ![w].i = @ + 1, ![w].found = ZeroSecret,
                        ![w].log = Append(@, Call("update", Target(w), "err"))]
    /\ UNCHANGED <<cluster, SecretList, passes, envOps, hist>>

\* The targets are exhausted: Reconcile returns.
ReconcileDone(w) ==
    /\ st[w].pc = "loop"
    /\ st[w].i > Len(st[w].targets)
    /\ st' = [st EXCEPT ![w].pc = "done", ![w].result = resultDone(st[w].interval)]
    /\ UNCHANGED <<cluster, SecretList, passes, envOps, hist>>

\* The caller has the result; the worker is free for the next request.
Return(w) ==
    /\ st[w].pc = "done"
    /\ hist' = [hist EXCEPT !.prev = [ran |-> TRUE, Data |-> st[w].secret.Data,
                                      err |-> st[w].result.err,
                                      failed |-> Failed(w)]]
    /\ st' = [st EXCEPT ![w] = Idle]
    /\ UNCHANGED <<cluster, SecretList, passes, envOps>>

(* ------------------------------ other clients -------------------------- *)

EnvStep(tag) ==
    /\ envOps < MaxEnvOps
    /\ envOps' = envOps + 1
    /\ hist' = [hist EXCEPT !.during = @ \cup {tag}]
    /\ UNCHANGED <<SecretList, st, passes>>

\* The source's payload is changed.
EditPayload(data) ==
    /\ SrcKey \in DOMAIN cluster
    /\ data # cluster[SrcKey].Data
    /\ cluster' = [cluster EXCEPT ![SrcKey].Data = data]
    /\ EnvStep("payload")

\* One annotation of the source is set, or removed (v = {}).
EditAnnotation(suffix, v) ==
    /\ SrcKey \in DOMAIN cluster
    /\ LET old == cluster[SrcKey].Annotations
           new == [k \in (DOMAIN old \ {AnnKey(suffix)}) \cup {AnnKey(suffix) : x \in v}
                     |-> IF k = AnnKey(suffix) THEN CHOOSE x \in v : TRUE ELSE old[k]]
       IN  /\ new # old
           /\ cluster' = [cluster EXCEPT ![SrcKey].Annotations = new]
    /\ EnvStep("annotations")

\* The source is deleted.
DeleteSource ==
    /\ SrcKey \in DOMAIN cluster
    /\ cluster' = Remove(cluster, SrcKey)
    /\ EnvStep("delete")

\* Another client writes an object with the source's name in another
\* namespace: it creates one without annotations, or changes the payload of
\* the one that is there.
ExternalWrite(ns, data) ==
    /\ LET key == <<ns, SecretName>>
       IN  IF key \in DOMAIN cluster
           THEN /\ data # cluster[key].Data
                /\ cluster' = [cluster EXCEPT ![key].Data = data]
           ELSE cluster' = Put(cluster, key, Secret(ns, SecretName, EmptyAnn, data))
    /\ EnvStep("replica")

\* The namespaces in which other clients write objects with the source's name.
ExternalNamespaces == {NsA}

\* The edits of the source's annotations: replication is disabled, the allow
\* list is dropped or replaced, a namespace is added to the exclude list.
Edits ==
    {<<replicationAllowedKey, {"false"}>>,
     <<allowedNamespacesKey, {}>>,
     <<allowedNamespacesKey, {<<"d", ",", "b">>}>>,
     <<excludedNamespacesKey, {<<"b", ",", "a">>}>>}

(* ---------------------------- specification ---------------------------- *)

Next ==
    \/ \E w \in Workers, req \in Requests : ReconcileNotFound(w, req)
    \/ \E w \in Workers, req \in Requests : ReconcileGetError(w, req)
    \/ \E w \in Workers, req \in Requests : ReconcileInvalid(w, req)
    \/ \E w \in Workers, req \in Requests : ReconcileDisabled(w, req)
    \/ \E w \in Workers, req \in Requests : ReconcileEnabled(w, req)
    \/ \E w \in Workers : ListNamespaces(w)
    \/ \E w \in Workers : ListNamespacesError(w)
    \/ \E w \in Workers : GetReplicaNotFound(w)
    \/ \E w \in Workers : GetReplicaUpToDate(w)
    \/ \E w \in Workers : GetReplicaDrifted(w)
    \/ \E w \in Workers : GetReplicaError(w)
    \/ \E w \in Workers : CreateOk(w)
    \/ \E w \in Workers : CreateError(w)
    \/ \E w \in Workers : UpdateOk(w)
    \/ \E w \in Workers : UpdateError(w)
    \/ \E w \in Workers : ReconcileDone(w)
    \/ \E w \in Workers : Return(w)
    \/ \E data \in Payloads : EditPayload(data)
    \/ \E e \in Edits : EditAnnotation(e[1], e[2])
    \/ DeleteSource
    \/ \E ns \in ExternalNamespaces, data \in Payloads : ExternalWrite(ns, data)

Spec == Init /\ [][Next]_vars

(* ------------------- concurrent Reconcile invocations ------------------ *)

\* Reconcile run by two workers at once, for two sources of one namespace.
\* The statement r.SecretList = utils.AppendListItem(r.SecretList, ...) is a
\* load of the field and, later, a store to it, with no lock around the two:
\* the steps of the other worker may fall between them.  The load and the
\* store are of whole lists.

ConcWorkers == {1, 2}

OtherName == <<"y">>
OtherKey == <<NsS, OtherName>>
ConcRequests == {SrcKey, OtherKey}

\* Both sources are replication-enabled, each with a one-element allow list.
ConcAnnotations ==
    {MkAnn({"true"}, {<<"a">>}, {}, {}), MkAnn({"true"}, {<<"b">>}, {}, {"10s"})}

ConcInit ==
    /\ \E annX, annY \in ConcAnnotations :
          cluster = [k \in ConcRequests |->
                        IF k = SrcKey THEN Secret(NsS, SecretName, annX, "P")
                        ELSE Secret(NsS, OtherName, annY, "P")]
    /\ SecretList = <<>>
    /\ st = [w \in ConcWorkers |-> Idle]
    /\ passes = 0
    /\ envOps = 0
    /\ hist = NoHistory

\* Replication is enabled: r.SecretList is loaded for utils.AppendListItem.
ReconcileLoad(w, req) ==
    /\ Begin(w, req)
    /\ req \in DOMAIN cluster
    /\ ~validateConfiguration(cluster[req])
    /\ replicateEnabled(cluster[req])
    /\ st' = [st EXCEPT ![w] = [Idle EXCEPT !.pc = "store", !.req = req,
                                            !.secret = cluster[req],
                                            !.list = SecretList]]
    /\ UNCHANGED <<cluster, SecretList, envOps>>

\* The result of utils.AppendListItem is stored to r.SecretList; the interval
\* and the allow list are read.
ReconcileStore(w) ==
    /\ st[w].pc = "store"
    /\ SecretList' = AppendListItem(st[w].list, st[w].req)
    /\ hist' = [hist EXCEPT !.tracked = @ \cup {st[w].req}]
    /\ LET secret == st[w].secret
           allowedNamespaces == getAllowedNamespaces(secret)
       IN  st' = [st EXCEPT ![w].pc = IF Len(allowedNamespaces) > 0 THEN "loop" ELSE "list",
                           ![w].list = <<>>,
                           ![w].interval = getReconciliationInterval(secret),
                           ![w].targets = allowedTargets(secret, allowedNamespaces)]
    /\ UNCHANGED <<cluster, passes, envOps>>

ConcNext ==
    \/ \E w \in ConcWorkers, req \in ConcRequests : ReconcileGetError(w, req)
    \/ \E w \in ConcWorkers, req \in ConcRequests : ReconcileLoad(w, req)
    \/ \E w \in ConcWorkers : ReconcileStore(w)
    \/ \E w \in ConcWorkers : GetReplicaNotFound(w)
    \/ \E w \in ConcWorkers : GetReplicaUpToDate(w)
    \/ \E w \in ConcWorkers : GetReplicaError(w)
    \/ \E w \in ConcWorkers : CreateOk(w)
    \/ \E w \in ConcWorkers : CreateError(w)
    \/ \E w \in ConcWorkers : ReconcileDone(w)
    \/ \E w \in ConcWorkers : Return(w)

ConcSpec == ConcInit /\ [][ConcNext]_vars

(* ----------------------- every list annotation value ------------------ *)

\* Reconcile on a replication-enabled source whose list annotations are
\* absent or hold any string of a namespace letter, the comma and the space.

ListChars == {"a", ",", " "}

ListValues == UNION {[1..n -> ListChars] : n \in 0..MaxLen}

ParseInit ==
    /\ \E al \in Opt(ListValues), ex \in Opt(ListValues) :
          cluster = [k \in {SrcKey} |->
                        Secret(NsS, SecretName, MkAnn({"true"}, al, ex, {}), "P")]
    /\ SecretList = <<>>
    /\ st = [w \in Workers |-> Idle]
    /\ passes = 0
    /\ envOps = 0
    /\ hist = NoHistory

ParseNext ==
    \/ \E w \in Workers, req \in Requests : ReconcileGetError(w, req)
    \/ \E w \in Workers, req \in Requests : ReconcileInvalid(w, req)
    \/ \E w \in Workers, req \in Requests : ReconcileEnabled(w, req)
    \/ \E w \in Workers : ListNamespaces(w)
    \/ \E w \in Workers : ListNamespacesError(w)
    \/ \E w \in Workers : GetReplicaNotFound(w)
    \/ \E w \in Workers : GetReplicaUpToDate(w)
    \/ \E w \in Workers : GetReplicaError(w)
    \/ \E w \in Workers : CreateOk(w)
    \/ \E w \in Workers : CreateError(w)
    \/ \E w \in Workers : ReconcileDone(w)
    \/ \E w \in Workers : Return(w)

ParseSpec == ParseInit /\ [][ParseNext]_vars

(* ------------------------- the driver's requeue ------------------------ *)

\* Reconcile re-invoked by the driver for as long as its result asks for it:
\* after an error, and after the delay of a result with RequeueAfter.  The
\* bound on the invocations is the bound on those that an event triggers.
\* The source's payload is changed a bounded number of times, and then no more.

\* The caller has the result, which asks for another invocation (an error,
\* or a result with RequeueAfter): the request is queued again.
ReturnRequeue(w) ==
    /\ st[w].pc = "done"
    /\ st[w].result.err # "nil" \/ st[w].result.RequeueAfter > 0
    /\ hist' = [hist EXCEPT !.prev = [ran |-> TRUE, Data |-> st[w].secret.Data,
                                      err |-> st[w].result.err,
                                      failed |-> Failed(w)]]
    /\ st' = [st EXCEPT ![w] = Idle]
    /\ passes' = 0
    /\ UNCHANGED <<cluster, SecretList, envOps>>

\* The sources of this specification are replication-enabled and valid: no
\* list (the targets are the listed namespaces), an allow list with the
\* source's namespace, an allow list with a namespace that does not exist, an
\* exclude list.
LiveAnnotations ==
    {MkAnn({"true"}, {}, {}, {}),
     MkAnn({"true"}, {<<"s", ",", "a">>}, {}, {"10s"}),
     MkAnn({"true"}, {<<"d", ",", "b">>}, {}, {}),
     MkAnn({"true"}, {}, {<<"a">>}, {"bad"})}

LiveInit ==
    /\ \E ann \in LiveAnnotations :
          cluster = [k \in {SrcKey} |-> Secret(NsS, SecretName, ann, "P")]
    /\ SecretList = <<>>
    /\ st = [w \in Workers |-> Idle]
    /\ passes = 0
    /\ envOps = 0
    /\ hist = NoHistory

LiveNext ==
    \/ \E w \in Workers, req \in Requests : ReconcileGetError(w, req)
    \/ \E w \in Workers, req \in Requests : ReconcileEnabled(w, req)
    \/ \E w \in Workers : ListNamespaces(w)
    \/ \E w \in Workers : ListNamespacesError(w)
    \/ \E w \in Workers : GetReplicaNotFound(w)
    \/ \E w \in Workers : GetReplicaUpToDate(w)
    \/ \E w \in Workers : GetReplicaDrifted(w)
    \/ \E w \in Workers : GetReplicaError(w)
    \/ \E w \in Workers : CreateOk(w)
    \/ \E w \in Workers : CreateError(w)
    \/ \E w \in Workers : UpdateOk(w)
    \/ \E w \in Workers : UpdateError(w)
    \/ \E w \in Workers : ReconcileDone(w)
    \/ \E w \in Workers : ReturnRequeue(w)
    \/ \E data \in Payloads : EditPayload(data)

\* A step of the driver or of a worker: an invocation, the return of an API
\* call, the return of Reconcile.
WorkerStep ==
    \/ \E w \in Workers, req \in Requests :
          ReconcileGetError(w, req) \/ ReconcileEnabled(w, req)
    \/ \E w \in Workers :
          \/ ListNamespaces(w) \/ ListNamespacesError(w)
          \/ GetReplicaNotFound(w) \/ GetReplicaUpToDate(w)
          \/ GetReplicaDrifted(w) \/ GetReplicaError(w)
          \/ CreateOk(w) \/ CreateError(w) \/ UpdateOk(w) \/ UpdateError(w)
          \/ ReconcileDone(w) \/ ReturnRequeue(w)

\* The fetch, the create and the update in namespace ns, when they succeed.
FetchIn(ns) ==
    \E w \in Workers :
        /\ GetReplicaNotFound(w) \/ GetReplicaUpToDate(w) \/ GetReplicaDrifted(w)
        /\ Target(w) = ns

CreateIn(ns) == \E w \in Workers : CreateOk(w) /\ Target(w) = ns

UpdateIn(ns) == \E w \in Workers : UpdateOk(w) /\ Target(w) = ns

\* The driver and the worker take their steps, and each API call that is
\* attempted again and again succeeds in the end: the fetch of the source,
\* the listing, and the fetch, the create and the update in each namespace
\* other than the source's.
LiveFairness ==
    /\ WF_vars(WorkerStep)
    /\ SF_vars(\E w \in Workers, req \in Requests : ReconcileEnabled(w, req))
    /\ SF_vars(\E w \in Workers : ListNamespaces(w))
    /\ \A ns \in LiveNamespaces \ {NsS} :
          SF_vars(FetchIn(ns)) /\ SF_vars(CreateIn(ns)) /\ SF_vars(UpdateIn(ns))

LiveSpec == LiveInit /\ [][LiveNext]_vars /\ LiveFairness

(* ------------------------------ the claims ----------------------------- *)

Elems(s) == {s[n] : n \in 1..Len(s)}

Active(w) == st[w].pc # "idle"

\* The pass of worker w has read the source object.
ReadSource(w) == Active(w) /\ st[w].secret.Name = SecretName

\* The create and update calls the pass of worker w has issued so far.
WriteCalls(w) == {n \in 1..Len(st[w].log) : st[w].log[n].op \in {"create", "update"}}

\* The namespaces the pass of worker w has fetched a replica from, in order.
IsGet(c) == c.op = "get"
GetCalls(w) == SelectSeq(st[w].log, IsGet)
Fetched(w) == [n \in 1..Len(GetCalls(w)) |-> GetCalls(w)[n].ns]

\* replication-allowed is absent, or its value is not one that parses to true.
NotAllowed(secret) ==
    \/ AnnKey(replicationAllowedKey) \notin DOMAIN secret.Annotations
    \/ secret.Annotations[AnnKey(replicationAllowedKey)]
          \notin {"1", "t", "T", "TRUE", "true", "True"}

\* C1. Fail-closed: a pass that reads a source whose replication-allowed
\* annotation is absent, empty, not a boolean or false issues no create and
\* no update call, whatever the lists and the cluster hold.
C1_FailClosed ==
    \A w \in Workers : (ReadSource(w) /\ NotAllowed(st[w].secret)) =>
        /\ WriteCalls(w) = {}
        /\ st[w].pc = "done"

\* A pass has ended on a source whose replication-allowed is not a boolean,
\* with an allow list naming a namespace that holds no replica.
C1_Witness ==
    \E w \in Workers :
        /\ ReadSource(w) /\ st[w].pc = "done"
        /\ AnnKey(replicationAllowedKey) \in DOMAIN st[w].secret.Annotations
        /\ st[w].secret.Annotations[AnnKey(replicationAllowedKey)] = "yes"
        /\ getAllowedNamespaces(st[w].secret) = <<NsA>>
        /\ <<NsA, SecretName>> \notin DOMAIN cluster

\* The allow list and the exclude list of the secret share an element.
Overlapping(secret) ==
    Elems(getAllowedNamespaces(secret)) \cap Elems(getExcludedNamespaces(secret)) # {}

\* C2. A pass that reads a source whose allow list and exclude list share an
\* element ends with the configuration error and issues no create and no
\* update call, whatever replication-allowed is.
C2_OverlapIsConfigError ==
    \A w \in Workers : (ReadSource(w) /\ Overlapping(st[w].secret)) =>
        /\ st[w].pc = "done"
        /\ st[w].result.err = "config"
        /\ WriteCalls(w) = {}

\* A pass has ended on a replication-enabled source whose lists share one
\* element, at different positions.
C2_Witness ==
    \E w \in Workers :
        /\ ReadSource(w) /\ st[w].pc = "done"
        /\ ~NotAllowed(st[w].secret)
        /\ getAllowedNamespaces(st[w].secret) = <<NsA>>
        /\ getExcludedNamespaces(st[w].secret) = <<NsB, NsA>>

Last(s) == s[Len(s)]

\* Worker w has ended a pass on a replication-enabled, valid source with no
\* top-level error.
Converged(w) ==
    /\ ReadSource(w) /\ st[w].pc = "done" /\ st[w].result.err = "nil"
    /\ ~NotAllowed(st[w].secret) /\ ~Overlapping(st[w].secret)

\* The step of worker w is a create (an update) call that succeeds.
Succeeds(w, op) ==
    /\ st[w].pc = op /\ st'[w].pc = "loop"
    /\ Last(st'[w].log) = Call(op, Target(w), "ok")

Drifted(w, n) ==
    /\ st[w].log[n].op = "get" /\ st[w].log[n].res = "ok"
    /\ n < Len(st[w].log) /\ st[w].log[n + 1].op = "update"

UpdateCalls(w) == {n \in 1..Len(st[w].log) : st[w].log[n].op = "update"}

\* C5 as stated. Idempotence: a pass that follows a pass for the same source,
\* the source payload unchanged in between, issues no update call.  (Stated
\* here for a first pass that returned no error, and for the runs in which no
\* other client has written anything since the first of the two passes began.)
C5_Original ==
    \A w \in Workers :
        (/\ ReadSource(w) /\ hist.prev.ran /\ hist.prev.err = "nil"
         /\ hist.prev.Data = st[w].secret.Data
         /\ hist.before = {} /\ hist.during = {}) => UpdateCalls(w) = {}

\* C5 as amended. A pass that follows a pass for the same source all of whose
\* API calls succeeded issues no update call, when no other client has written
\* to the cluster since the first of the two passes began.
C5_Idempotent ==
    \A w \in Workers :
        (/\ ReadSource(w) /\ hist.prev.ran /\ ~hist.prev.failed
         /\ hist.before = {} /\ hist.during = {}) => UpdateCalls(w) = {}

\* A second pass has ended that found the replicas of the first pass up to
\* date in two namespaces.
C5_Witness ==
    \E w \in Workers :
        /\ Converged(w) /\ hist.prev.ran /\ ~hist.prev.failed
        /\ hist.before = {} /\ hist.during = {}
        /\ Len(st[w].log) >= 2
        /\ \A n \in 1..Len(st[w].log) : st[w].log[n].op \in {"get", "list"} /\ st[w].log[n].res = "ok"
        /\ \E n \in 1..Len(st[w].log) : st[w].log[n] = Call("get", NsA, "ok")

\* The pass of worker w reads a replication-enabled, valid source.
Replicating(w) ==
    ReadSource(w) /\ ~NotAllowed(st[w].secret) /\ ~Overlapping(st[w].secret)

\* The calls of the pass of worker w that name a target namespace.
TargetCalls(w) ==
    {n \in 1..Len(st[w].log) : st[w].log[n].op \in {"get", "create", "update"}}

\* C6 as stated. Allow-list precedence: with a non-empty allow list, every
\* namespace that is in both lists still receives a replica from a pass of a
\* replication-enabled source.  (Stated here as: the pass has ended, and the
\* namespace holds the object or the pass issued a create or update for it.)
C6_Original ==
    \A w \in Workers :
        (ReadSource(w) /\ st[w].pc = "done" /\ ~NotAllowed(st[w].secret)) =>
            \A ns \in Elems(getAllowedNamespaces(st[w].secret))
                         \cap Elems(getExcludedNamespaces(st[w].secret)) :
                \/ <<ns, SecretName>> \in DOMAIN cluster
                \/ \E n \in WriteCalls(w) : st[w].log[n].ns = ns

\* C6 as amended. With a non-empty allow list the exclude list is not used as
\* a filter, but a namespace that is in both lists receives nothing: no pass
\* fetches, creates or updates in a namespace of its exclude list, because a
\* shared element ends the pass with the configuration error.
C6_NoReplicaInBothLists ==
    \A w \in Workers :
        (ReadSource(w) /\ Len(getAllowedNamespaces(st[w].secret)) > 0) =>
            /\ \A n \in TargetCalls(w) :
                  st[w].log[n].ns \notin Elems(getExcludedNamespaces(st[w].secret))
            /\ Overlapping(st[w].secret) => st[w].log = <<>>

\* A pass with allow list d,b and exclude list a has created the replica in b.
C6_Witness ==
    \E w \in Workers :
        /\ Replicating(w) /\ st[w].pc = "done"
        /\ getAllowedNamespaces(st[w].secret) = <<NsD, NsB>>
        /\ getExcludedNamespaces(st[w].secret) = <<NsA>>
        /\ \E n \in WriteCalls(w) : st[w].log[n] = Call("create", NsB, "ok")

\* C7. With a non-empty allow list, a pass of a replication-enabled, valid
\* source fetches the replica in the allow-list entries, in order and nowhere
\* else: the namespaces are not listed, entries that name no namespace or the
\* source namespace are kept, and no other namespace is written.
C7_AllowListTargets ==
    \A w \in Workers :
        (Replicating(w) /\ Len(getAllowedNamespaces(st[w].secret)) > 0) =>
            LET allowed == getAllowedNamespaces(st[w].secret)
            IN  /\ \A n \in 1..Len(st[w].log) : st[w].log[n].op # "list"
                /\ Len(Fetched(w)) <= Len(allowed)
                /\ Fetched(w) = SubSeq(allowed, 1, Len(Fetched(w)))
                /\ st[w].pc = "done" => Fetched(w) = allowed
                /\ \A n \in WriteCalls(w) : st[w].log[n].ns \in Elems(allowed)

\* A pass with allow list s,a has ended: it fetched in s and in a, and b holds
\* no object.
C7_Witness ==
    \E w \in Workers :
        /\ Replicating(w) /\ st[w].pc = "done"
        /\ getAllowedNamespaces(st[w].secret) = <<NsS, NsA>>
        /\ Fetched(w) = <<NsS, NsA>>
        /\ <<NsB, SecretName>> \notin DOMAIN cluster

\* C8. With an empty allow list, a pass of a replication-enabled source
\* fetches the replica once in each live namespace other than the source
\* namespace and the excluded ones, and fetches or writes in no other.
C8_LiveMinusExcluded ==
    \A w \in Workers :
        (Replicating(w) /\ Len(getAllowedNamespaces(st[w].secret)) = 0) =>
            LET expected == (LiveNamespaces \ {st[w].secret.Namespace})
                                \ Elems(getExcludedNamespaces(st[w].secret))
            IN  /\ \A n \in TargetCalls(w) : st[w].log[n].ns \in expected
                /\ Cardinality(Elems(Fetched(w))) = Len(Fetched(w))
                /\ (st[w].pc = "done" /\ st[w].result.err = "nil") =>
                      Elems(Fetched(w)) = expected

\* A pass with no allow list and exclude list a has ended: it fetched in b
\* only, and a holds no object.
C8_Witness ==
    \E w \in Workers :
        /\ Replicating(w) /\ st[w].pc = "done" /\ st[w].result.err = "nil"
        /\ getAllowedNamespaces(st[w].secret) = <<>>
        /\ getExcludedNamespaces(st[w].secret) = <<NsA>>
        /\ Fetched(w) = <<NsB>>
        /\ \E n \in WriteCalls(w) : st[w].log[n] = Call("create", NsB, "ok")
        /\ <<NsA, SecretName>> \notin DOMAIN cluster

\* C9. A failed fetch, create or update in one target namespace does not end
\* the batch: whatever the outcomes so far, the pass has fetched in every
\* target before the current one, it ends only after the last target, and
\* every fetch that finds no object is followed by the create call.
C9_BatchContinues ==
    \A w \in Workers :
        (Replicating(w) /\ st[w].result.err = "nil"
            /\ st[w].pc \in {"loop", "create", "update", "done"}) =>
            LET done == IF st[w].pc \in {"create", "update"} THEN st[w].i ELSE st[w].i - 1
            IN  /\ done <= Len(st[w].targets)
                /\ Fetched(w) = SubSeq(st[w].targets, 1, done)
                /\ st[w].pc = "done" => Fetched(w) = st[w].targets
                /\ \A n \in 1..Len(st[w].log) :
                      st[w].log[n].op = "get" /\ st[w].log[n].res = "notfound" =>
                         \/ n = Len(st[w].log) /\ st[w].pc = "create"
                         \/ /\ n < Len(st[w].log)
                            /\ st[w].log[n + 1].op = "create"
                            /\ st[w].log[n + 1].ns = st[w].log[n].ns

\* A pass has ended in which a fetch failed in one namespace and the replica
\* was created in a later one.
C9_Witness ==
    \E w \in Workers :
        /\ Converged(w)
        /\ \E m, n \in 1..Len(st[w].log) :
              /\ m < n
              /\ st[w].log[m].op = "get" /\ st[w].log[m].res = "err"
              /\ st[w].log[n].op = "create" /\ st[w].log[n].res = "ok"

\* The reconcile interval the annotations of the secret configure, in seconds.
Configured(secret) ==
    IF AnnKey(reconciliationIntervalKey) \notin DOMAIN secret.Annotations THEN 300
    ELSE IF secret.Annotations[AnnKey(reconciliationIntervalKey)] = "10s" THEN 10
    ELSE IF secret.Annotations[AnnKey(reconciliationIntervalKey)] = "1m" THEN 60
    ELSE 300

\* C10. A pass of a replication-enabled, valid source that gets past target
\* selection returns no error and the configured reconcile interval as its
\* requeue delay, whatever failed in the target namespaces.
C10_RequeueAfterInterval ==
    \A w \in Workers :
        (/\ Replicating(w) /\ st[w].pc = "done"
         /\ \A n \in 1..Len(st[w].log) : st[w].log[n] # Call("list", <<>>, "err")) =>
            /\ st[w].result.err = "nil"
            /\ st[w].result.RequeueAfter = Configured(st[w].secret)

\* A pass with interval 10s has ended after two failed calls.
C10_Witness ==
    \E w \in Workers :
        /\ Replicating(w) /\ st[w].pc = "done"
        /\ st[w].result = [err |-> "nil", RequeueAfter |-> 10]
        /\ Cardinality({n \in 1..Len(st[w].log) : st[w].log[n].res = "err"}) >= 2

\* The pass of worker w has issued the call that lists the namespaces, and
\* the call has failed.
ListFailed(w) ==
    \E n \in 1..Len(st[w].log) : st[w].log[n] = Call("list", <<>>, "err")

\* C11. A pass whose listing of the live namespaces fails has an empty allow
\* list, has ended with that error and with the configured reconcile interval
\* as its requeue delay, and has issued no call but the listing: no fetch, no
\* create, no update.
C11_ListErrorRequeues ==
    \A w \in Workers : (ReadSource(w) /\ ListFailed(w)) =>
        /\ getAllowedNamespaces(st[w].secret) = <<>>
        /\ st[w].pc = "done"
        /\ st[w].result.err = "list"
        /\ st[w].result.RequeueAfter = Configured(st[w].secret)
        /\ st[w].log = <<Call("list", <<>>, "err")>>

\* The listing has failed in a pass of a source with interval 10s and an
\* absent allow list.
C11_Witness ==
    \E w \in Workers :
        /\ ReadSource(w) /\ ListFailed(w)
        /\ st[w].result = [err |-> "list", RequeueAfter |-> 10]

\* The step of worker w begins a pass whose fetch of the source answers
\* "not found".
SourceNotFound(w) ==
    /\ st[w].pc = "idle" /\ st'[w].pc # "idle"
    /\ st'[w].req \notin DOMAIN cluster
    /\ st'[w].result.err # "get"

\* C12. A pass whose fetch of the source answers "not found" ends at once
\* with no error and no requeue delay, issues no call, and leaves the tracked
\* sources and every object of the cluster as they were.
C12_NotFoundIsNoOp ==
    [][\A w \in Workers : SourceNotFound(w) =>
          /\ st'[w].pc = "done"
          /\ st'[w].result = [err |-> "nil", RequeueAfter |-> 0]
          /\ st'[w].log = <<>>
          /\ SecretList' = SecretList
          /\ cluster' = cluster]_vars

\* A pass has ended on a source that was deleted after an earlier pass had
\* tracked it and created a replica of it, and the replica is still there.
C12_Witness ==
    \E w \in Workers :
        /\ st[w].pc = "done" /\ st[w].result.err = "nil"
        /\ st[w].req \notin DOMAIN cluster
        /\ st[w].secret = ZeroSecret
        /\ SecretList = <<st[w].req>>
        /\ <<NsA, SecretName>> \in DOMAIN cluster
        /\ AnnKey(replicatedFromKey) \in DOMAIN cluster[<<NsA, SecretName>>].Annotations

\* C13 as stated. For every source with replication disabled the pass is
\* terminal with no error and no requeue delay.
C13_Original ==
    \A w \in Workers : (ReadSource(w) /\ NotAllowed(st[w].secret)) =>
        /\ st[w].pc = "done"
        /\ st[w].result = [err |-> "nil", RequeueAfter |-> 0]

\* C13 as amended. For every source with replication disabled whose allow
\* list and exclude list share no element, the pass is terminal with no error
\* and no requeue delay.
C13_DisabledIsTerminal ==
    \A w \in Workers :
        (ReadSource(w) /\ NotAllowed(st[w].secret) /\ ~Overlapping(st[w].secret)) =>
            /\ st[w].pc = "done"
            /\ st[w].result = [err |-> "nil", RequeueAfter |-> 0]

\* A pass has ended on a source whose replication-allowed is "false", with
\* an interval annotation and lists that share no element.
C13_Witness ==
    \E w \in Workers :
        /\ ReadSource(w) /\ st[w].pc = "done"
        /\ AnnKey(replicationAllowedKey) \in DOMAIN st[w].secret.Annotations
        /\ st[w].secret.Annotations[AnnKey(replicationAllowedKey)] = "false"
        /\ Configured(st[w].secret) = 10
        /\ ~Overlapping(st[w].secret)
        /\ st[w].result.RequeueAfter = 0

\* C17. The engine never deletes: no step of a Reconcile pass removes an
\* object from the cluster; the one object that is ever removed is the
\* source, by another client.  A replica therefore outlives the deletion of
\* its source, the disabling of replication and every change of the lists.
C17_NeverDeletes ==
    [][\A key \in DOMAIN cluster :
          key \notin DOMAIN cluster' => (key = SrcKey /\ envOps' = envOps + 1)]_vars

\* A pass has ended on a source whose replication was disabled after an
\* earlier pass had created a replica of it, and the replica is still there.
C17_Witness ==
    \E w \in Workers :
        /\ ReadSource(w) /\ st[w].pc = "done"
        /\ NotAllowed(st[w].secret)
        /\ hist.prev.ran
        /\ <<NsA, SecretName>> \in DOMAIN cluster
        /\ cluster[<<NsA, SecretName>>].Annotations =
              [k \in {AnnKey(replicatedFromKey)} |-> <<"s", "_", "x">>]

\* C18. No pass writes the source object itself: in particular, when the
\* source namespace is in the allow list and the source payload is changed
\* between the pass's fetch of the source and its fetch of the target, no
\* update of the pass succeeds on the source's own (namespace, name).
C18_SourceNotOverwritten ==
    \A w \in Workers : ReadSource(w) =>
        \A n \in WriteCalls(w) :
            st[w].log[n].ns = st[w].secret.Namespace => st[w].log[n].res # "ok"

\* C19. The update step changes only the payload of the object it fetched in
\* the target namespace: when an update call succeeds, the object has the
\* payload the pass read from the source and the namespace, name and
\* annotations it was fetched with, and no other object is touched.
C19_UpdateChangesPayloadOnly ==
    [][\A w \in Workers : Succeeds(w, "update") =>
          /\ TargetKey(w) \in DOMAIN cluster
          /\ DOMAIN cluster' = DOMAIN cluster
          /\ cluster'[TargetKey(w)].Data = st[w].secret.Data
          /\ cluster'[TargetKey(w)].Annotations = st[w].found.Annotations
          /\ cluster'[TargetKey(w)].Namespace = st[w].found.Namespace
          /\ cluster'[TargetKey(w)].Name = st[w].found.Name
          /\ \A key \in DOMAIN cluster \ {TargetKey(w)} : cluster'[key] = cluster[key]]_vars

\* An update has succeeded on an object of another client that carries no
\* provenance annotation: it has the source's payload and still no annotation.
C19_Witness ==
    \E w \in Workers :
        /\ Replicating(w) /\ st[w].log # <<>>
        /\ Last(st[w].log) = Call("update", NsA, "ok")
        /\ cluster[<<NsA, SecretName>>].Annotations = EmptyAnn
        /\ cluster[<<NsA, SecretName>>].Data = st[w].secret.Data

NoDuplicates(list) ==
    \A i, j \in 1..Len(list) : list[i] = list[j] => i = j

\* Worker w is in a pass that has stored its identity to SecretList.
Stored(w) == st[w].pc \notin {"idle", "store"}

\* C14. Same key: SecretList never holds an identity twice, and for as long
\* as the concurrent passes have appended one identity only, SecretList is
\* that identity, once, whatever the interleaving of their loads and stores.
C14_PresentOnce ==
    /\ NoDuplicates(SecretList)
    /\ \A key \in ConcRequests : hist.tracked = {key} => SecretList = <<key>>

\* Two passes for the same identity run at once and both have stored it.
C14_Witness ==
    /\ \A w \in ConcWorkers : Stored(w) /\ st[w].req = SrcKey
    /\ hist.tracked = {SrcKey}
    /\ SecretList = <<SrcKey>>

\* C15. Different keys: SecretList loses no append; every identity that a
\* pass has appended is in it, at every moment and so after all the
\* concurrent passes have finished.
C15_NoLostAppend ==
    \A key \in hist.tracked : key \in Elems(SecretList)

\* The namespaces of the cluster in which the secret is to be replicated.
LiveTargets(secret) ==
    IF AnnKey(allowedNamespacesKey) \in DOMAIN secret.Annotations
    THEN Elems(getAllowedNamespaces(secret)) \cap LiveNamespaces
    ELSE LiveNamespaces \ (Elems(getExcludedNamespaces(secret)) \cup {secret.Namespace})

\* Every target namespace of the source holds an object with the source's
\* name and payload (when the source is there, replication-enabled and valid).
Synced ==
    (/\ SrcKey \in DOMAIN cluster
     /\ ~NotAllowed(cluster[SrcKey])
     /\ ~Overlapping(cluster[SrcKey])) =>
        \A ns \in LiveTargets(cluster[SrcKey]) :
            /\ <<ns, SecretName>> \in DOMAIN cluster
            /\ cluster[<<ns, SecretName>>].Data = cluster[SrcKey].Data

\* C16. Eventual convergence: when Reconcile is invoked again as its results
\* ask, API calls that are retried succeed in the end and other clients stop
\* writing, then from some moment on every target namespace of a
\* replication-enabled, valid source holds a replica with the source's payload.
C16_EventuallyConverged == <>[]Synced

\* A re-invoked pass has ended with both targets in sync with the changed
\* payload of the source, after a pass in which a call had failed.
C16_Witness ==
    \E w \in Workers :
        /\ Replicating(w) /\ st[w].pc = "done"
        /\ hist.prev.ran /\ hist.prev.failed
        /\ Cardinality(LiveTargets(st[w].secret)) = 2
        /\ cluster[SrcKey].Data = "Q"
        /\ Synced

\* The pieces joined again with commas.
RECURSIVE Join(_)
Join(pieces) ==
    IF Len(pieces) = 1 THEN pieces[1]
    ELSE pieces[1] \o <<",">> \o Join(Tail(pieces))

\* The list is the comma-split of the string: one piece at least, no comma in
\* a piece, and the pieces joined with commas are the string, so nothing is
\* trimmed and nothing is dropped.
IsCommaSplit(pieces, str) ==
    /\ Len(pieces) >= 1
    /\ \A n \in 1..Len(pieces) : \A i \in 1..Len(pieces[n]) : pieces[n][i] # ","
    /\ Join(pieces) = str

Present(secret, suffix) == AnnKey(suffix) \in DOMAIN secret.Annotations

\* C20. A list annotation that is present parses to the comma-split of its
\* value, untrimmed and with its repetitions and its empty pieces; so a
\* present allow list, the empty one included, is the list of targets of the
\* pass and the namespaces are not listed, and a source whose list
\* annotations are both present and empty ends with the configuration error.
C20_ListParsing ==
    \A w \in Workers : ReadSource(w) =>
        LET secret == st[w].secret
            ann == secret.Annotations
        IN  /\ Present(secret, allowedNamespacesKey) =>
                  IsCommaSplit(getAllowedNamespaces(secret), ann[AnnKey(allowedNamespacesKey)])
            /\ Present(secret, excludedNamespacesKey) =>
                  IsCommaSplit(getExcludedNamespaces(secret), ann[AnnKey(excludedNamespacesKey)])
            /\ (Present(secret, allowedNamespacesKey) /\ st[w].result.err # "config") =>
                  /\ IsCommaSplit(st[w].targets, ann[AnnKey(allowedNamespacesKey)])
                  /\ \A n \in 1..Len(st[w].log) : st[w].log[n].op # "list"
            /\ (/\ Present(secret, allowedNamespacesKey)
                /\ Present(secret, excludedNamespacesKey)
                /\ ann[AnnKey(allowedNamespacesKey)] = <<>>
                /\ ann[AnnKey(excludedNamespacesKey)] = <<>>) =>
                  st[w].pc = "done" /\ st[w].result.err = "config"

\* A pass has ended with the configuration error on a source whose list
\* annotations are both present and empty.
C20_Witness ==
    \E w \in Workers :
        /\ ReadSource(w) /\ st[w].pc = "done" /\ st[w].result.err = "config"
        /\ Present(st[w].secret, allowedNamespacesKey)
        /\ Present(st[w].secret, excludedNamespacesKey)
        /\ st[w].secret.Annotations[AnnKey(allowedNamespacesKey)] = <<>>
        /\ st[w].secret.Annotations[AnnKey(excludedNamespacesKey)] = <<>>

====
